---- MODULE Spec2Model ----
(***************************************************************************)
(* Model of the constant-argument brillig call inlining pass               *)
(* (compiler/noirc_evaluator/src/ssa/opt/inline_const_brillig_calls.rs).   *)
(*                                                                         *)
(* A program is a map from function ids to functions.  A function owns a   *)
(* value store (a sequence of values, a ValueId is an index into it) and   *)
(* a sequence of reachable blocks, the entry block first.                  *)
(***************************************************************************)
EXTENDS Integers, Sequences, FiniteSets, TLC

VARIABLES
    functions,          \* Ssa.functions : BTreeMap<FunctionId, Function>
    entry_points,       \* keys of Ssa.entry_point_to_generated_index
    brillig_functions,  \* the snapshot taken at the start of the pass
    could_not_inline,   \* brillig_functions_we_could_not_inline
    pc,                 \* "start", "visit", "remove", "done", "copy"
    cur,                \* the (function, block) whose instructions are being visited
    taken,              \* instructions drained from that block and not yet visited
    initial,            \* history: the program the current run started from
    last,               \* history: the outcome of the latest visited instruction
    visited,            \* history: (caller, instruction, callee, outcome) of every visit
    run,                \* number of the current run of the pass
    after_first,        \* history: the program returned by the first run
    cp                  \* state of the constant-migration harness (SpecCopy)

vars == <<functions, entry_points, brillig_functions, could_not_inline, pc, cur,
          taken, initial, last, visited, run, after_first, cp>>

-----------------------------------------------------------------------------
(* Values, instructions, blocks, functions                                 *)

main_id == 0

FuncIds == {main_id, 1, 2}

NoFunc == 0 - 1

MkValue(kind, c, elems, f) == [kind |-> kind, c |-> c, elems |-> elems, f |-> f]

ParamValue == MkValue("Param", 0, <<>>, NoFunc)

NumericConstant(c) == MkValue("NumericConstant", c, <<>>, NoFunc)

ArrayValue(elems) == MkValue("Array", 0, elems, NoFunc)

FunctionValue(f) == MkValue("Function", 0, <<>>, f)

ForeignFunctionValue == MkValue("ForeignFunction", 0, <<>>, NoFunc)

InstructionValue == MkValue("Instruction", 0, <<>>, NoFunc)

\* DataFlowGraph::make_value: a fresh identifier at the end of the store.
MakeValue(fn, v) ==
    [fn |-> [fn EXCEPT !.values = Append(@, v)], id |-> Len(fn.values) + 1]

MakeConstant(fn, c) == MakeValue(fn, NumericConstant(c))

MakeArray(fn, elems) == MakeValue(fn, ArrayValue(elems))

\* DataFlowGraph::set_value_from_id: value_to_replace now refers to new_value.
SetValueFromId(fn, value_to_replace, new_value) ==
    [fn EXCEPT !.values[value_to_replace] = fn.values[new_value]]

IsNumericConstant(fn, id) == fn.values[id].kind = "NumericConstant"

IsArrayConstant(fn, id) == fn.values[id].kind = "Array"

\* DataFlowGraph::is_constant as the pass relies on it.
IsConstant(fn, id) == IsNumericConstant(fn, id) \/ IsArrayConstant(fn, id)

SeqRange(s) == {s[i] : i \in 1..Len(s)}

\* Function::clone_with_id: an independent copy carrying the given id.
CloneWithId(id, fn) == [fn EXCEPT !.id = id]

EntryBlock == 1

-----------------------------------------------------------------------------
(* Constant migration                                                      *)

\* The copy the comment of copy_constant_to_function warns against: the
\* array is made in the destination from the source's element identifiers.
CopyConstantShallow(self, constant_id, function) ==
    IF IsNumericConstant(self, constant_id)
    THEN LET m == MakeConstant(function, self.values[constant_id].c)
         IN  [fn |-> m.fn, id |-> m.id, ok |-> TRUE]
    ELSE IF IsArrayConstant(self, constant_id)
    THEN LET m == MakeArray(function, self.values[constant_id].elems)
         IN  [fn |-> m.fn, id |-> m.id, ok |-> TRUE]
    ELSE [fn |-> function, id |-> 0, ok |-> FALSE]

RECURSIVE CopyConstantToFunction(_, _, _)
RECURSIVE CopyConstants(_, _, _, _)

\* The .map(..).collect() of the array case: the elements in order, the
\* destination threaded through.
CopyConstants(self, constants, function, acc) ==
    IF constants = <<>>
    THEN [fn |-> function, ids |-> acc, ok |-> TRUE]
    ELSE LET r == CopyConstantToFunction(self, Head(constants), function)
         IN  IF ~r.ok
             THEN [fn |-> r.fn, ids |-> acc, ok |-> FALSE]
             ELSE CopyConstants(self, Tail(constants), r.fn, Append(acc, r.id))

CopyConstantToFunction(self, constant_id, function) ==
    IF IsNumericConstant(self, constant_id)
    THEN LET m == MakeConstant(function, self.values[constant_id].c)
         IN  [fn |-> m.fn, id |-> m.id, ok |-> TRUE]
    ELSE IF IsArrayConstant(self, constant_id)
    THEN LET r == CopyConstants(self, self.values[constant_id].elems, function, <<>>)
             m == MakeArray(r.fn, r.ids)
         IN  IF r.ok
             THEN [fn |-> m.fn, id |-> m.id, ok |-> TRUE]
             ELSE [fn |-> r.fn, id |-> 0, ok |-> FALSE]
    ELSE [fn |-> function, id |-> 0, ok |-> FALSE]   \* unreachable!()

-----------------------------------------------------------------------------
(* The sub-pipeline run on a working clone                                 *)

RECURSIVE FoldInstructions(_, _, _)

\* The rewrite steps of the sub-pipeline on the entry block of a function
\* whose parameters were substituted: a binary operation on two numeric
\* constants is replaced by its constant result, a division by the constant
\* zero is a hard error, every other instruction (a call) is left in place.
FoldInstructions(fn, todo, kept) ==
    IF todo = <<>>
    THEN [ok |-> TRUE, fn |-> fn, kept |-> kept]
    ELSE LET i   == Head(todo)
             lhs == fn.values[i.arguments[1]]
             rhs == fn.values[i.arguments[2]]
         IN  IF i.kind # "Binary"
             THEN FoldInstructions(fn, Tail(todo), Append(kept, i))
             ELSE IF i.op = "div" /\ rhs.kind = "NumericConstant" /\ rhs.c = 0
             THEN [ok |-> FALSE, fn |-> fn, kept |-> kept]
             ELSE IF lhs.kind = "NumericConstant" /\ rhs.kind = "NumericConstant"
             THEN LET m == MakeConstant(fn, IF i.op = "div" THEN lhs.c \div rhs.c
                                                            ELSE lhs.c + rhs.c)
                  IN  FoldInstructions(SetValueFromId(m.fn, i.results[1], m.id),
                                       Tail(todo), kept)
             ELSE FoldInstructions(fn, Tail(todo), Append(kept, i))

\* optimize_ssa_after_inline_const_brillig_calls on an Ssa holding one function.
OptimizeSsaAfterInlineConstBrilligCalls(function) ==
    LET r == FoldInstructions(function, function.blocks[EntryBlock].instructions, <<>>)
    IN  [ok |-> r.ok,
         fn |-> [r.fn EXCEPT !.blocks[EntryBlock].instructions = r.kept]]

\* optimize(): retag the clone as ACIR and run the sub-pipeline on it.
Optimize(function) ==
    OptimizeSsaAfterInlineConstBrilligCalls([function EXCEPT !.runtime = "Acir"])

-----------------------------------------------------------------------------
(* The call specializer                                                    *)

RECURSIVE SubstituteParameters(_, _, _, _)

\* Lines 165-169: each argument is copied into the clone and bound to the
\* parameter at the same position.
SubstituteParameters(self, parameters, arguments, function) ==
    IF parameters = <<>> \/ arguments = <<>>
    THEN [fn |-> function, ok |-> TRUE]
    ELSE LET r == CopyConstantToFunction(self, Head(arguments), function)
         IN  IF ~r.ok
             THEN [fn |-> r.fn, ok |-> FALSE]
             ELSE SubstituteParameters(self, Tail(parameters), Tail(arguments),
                                       SetValueFromId(r.fn, Head(parameters), r.id))

NoFunction == [id |-> NoFunc, runtime |-> "None", values |-> <<>>, blocks |-> <<>>]

\* The OptimizeResult of one instruction, with the must-keep set as the call
\* left it; why names the return statement that produced it.
Outcome(result, func_id, function, return_values, cni, why) ==
    [result |-> result, func_id |-> func_id, function |-> function,
     return_values |-> return_values, could_not_inline |-> cni, why |-> why]

\* The clone-and-fold part with a hard error of the sub-pipeline propagated
\* instead of caught.
CloneAndFoldPropagatesError(self, arguments, func_id, snapshot, cni) ==
    LET function   == CloneWithId(func_id, snapshot)
        parameters == function.blocks[EntryBlock].parameters
        stripped   == [function EXCEPT !.blocks[EntryBlock].parameters = <<>>]
        subst      == SubstituteParameters(self, parameters, arguments, stripped)
        opt        == Optimize(subst.fn)
        entry      == opt.fn.blocks[EntryBlock]
    IN  IF Len(arguments) # Len(parameters) \/ ~subst.ok \/ ~opt.ok
        THEN Outcome("Panic", func_id, NoFunction, <<>>, cni, "panic")
        ELSE IF entry.instructions # <<>>
        THEN Outcome("CannotOptimize", func_id, NoFunction, <<>>, cni \cup {func_id},
                     "instructions")
        ELSE IF entry.terminator.kind # "Return"
        THEN Outcome("CannotOptimize", func_id, NoFunction, <<>>, cni, "terminator")
        ELSE IF \E v \in SeqRange(entry.terminator.return_values) : ~IsConstant(opt.fn, v)
        THEN Outcome("CannotOptimize", func_id, NoFunction, <<>>, cni, "return_values")
        ELSE Outcome("Optimized", func_id, opt.fn, entry.terminator.return_values,
                     cni, "optimized")

\* The clone-and-fold part with the callee marked must-keep as soon as it is
\* cloned.
CloneAndFoldMarksEarly(self, arguments, func_id, snapshot, cni) ==
    LET function   == CloneWithId(func_id, snapshot)
        parameters == function.blocks[EntryBlock].parameters
        stripped   == [function EXCEPT !.blocks[EntryBlock].parameters = <<>>]
        subst      == SubstituteParameters(self, parameters, arguments, stripped)
        opt        == Optimize(subst.fn)
        entry      == opt.fn.blocks[EntryBlock]
        marked     == cni \cup {func_id}
    IN  IF Len(arguments) # Len(parameters) \/ ~subst.ok
        THEN Outcome("Panic", func_id, NoFunction, <<>>, marked, "panic")
        ELSE IF ~opt.ok
        THEN Outcome("CannotOptimize", func_id, NoFunction, <<>>, marked, "error")
        ELSE IF entry.instructions # <<>>
        THEN Outcome("CannotOptimize", func_id, NoFunction, <<>>, marked, "instructions")
        ELSE IF entry.terminator.kind # "Return"
        THEN Outcome("CannotOptimize", func_id, NoFunction, <<>>, marked, "terminator")
        ELSE IF \E v \in SeqRange(entry.terminator.return_values) : ~IsConstant(opt.fn, v)
        THEN Outcome("CannotOptimize", func_id, NoFunction, <<>>, marked, "return_values")
        ELSE Outcome("Optimized", func_id, opt.fn, entry.terminator.return_values,
                     marked, "optimized")

\* The clone-and-fold part of optimize_const_brillig_call (lines 153-195).
CloneAndFold(self, arguments, func_id, snapshot, cni) ==
    LET function   == CloneWithId(func_id, snapshot)
        parameters == function.blocks[EntryBlock].parameters
        stripped   == [function EXCEPT !.blocks[EntryBlock].parameters = <<>>]
        subst      == SubstituteParameters(self, parameters, arguments, stripped)
        opt        == Optimize(subst.fn)
        entry      == opt.fn.blocks[EntryBlock]
    IN  IF Len(arguments) # Len(parameters)
        THEN Outcome("Panic", func_id, NoFunction, <<>>, cni, "assert")
        ELSE IF ~subst.ok
        THEN Outcome("Panic", func_id, NoFunction, <<>>, cni, "unreachable")
        ELSE IF ~opt.ok
        THEN Outcome("CannotOptimize", func_id, NoFunction, <<>>, cni, "error")
        ELSE IF entry.instructions # <<>>
        THEN Outcome("CannotOptimize", func_id, NoFunction, <<>>, cni \cup {func_id},
                     "instructions")
        ELSE IF entry.terminator.kind # "Return"
        THEN Outcome("CannotOptimize", func_id, NoFunction, <<>>, cni, "terminator")
        ELSE IF \E v \in SeqRange(entry.terminator.return_values) : ~IsConstant(opt.fn, v)
        THEN Outcome("CannotOptimize", func_id, NoFunction, <<>>, cni, "return_values")
        ELSE Outcome("Optimized", func_id, opt.fn, entry.terminator.return_values,
                     cni, "optimized")

\* optimize_const_brillig_call as the comment on OptimizeResult::NotABrilligCall
\* describes it: a call with a non-constant argument is reported as no
\* brillig call.
OptimizeConstBrilligCallPerComment(self, instruction, snapshots, cni) ==
    IF instruction.kind # "Call"
    THEN Outcome("NotABrilligCall", NoFunc, NoFunction, <<>>, cni, "not_a_call")
    ELSE IF self.values[instruction.func].kind # "Function"
    THEN Outcome("NotABrilligCall", NoFunc, NoFunction, <<>>, cni, "not_a_function")
    ELSE LET func_id == self.values[instruction.func].f
         IN  IF func_id \notin DOMAIN snapshots
             THEN Outcome("NotABrilligCall", NoFunc, NoFunction, <<>>, cni, "not_brillig")
             ELSE IF \E a \in SeqRange(instruction.arguments) : ~IsConstant(self, a)
             THEN Outcome("NotABrilligCall", NoFunc, NoFunction, <<>>, cni, "arguments")
             ELSE CloneAndFold(self, instruction.arguments, func_id,
                               snapshots[func_id], cni)

\* optimize_const_brillig_call looking the callee up in the live program
\* instead of the snapshot.
OptimizeConstBrilligCallLive(self, instruction, snapshots, cni) ==
    IF instruction.kind # "Call"
    THEN Outcome("NotABrilligCall", NoFunc, NoFunction, <<>>, cni, "not_a_call")
    ELSE IF self.values[instruction.func].kind # "Function"
    THEN Outcome("NotABrilligCall", NoFunc, NoFunction, <<>>, cni, "not_a_function")
    ELSE LET func_id == self.values[instruction.func].f
         IN  IF func_id \notin DOMAIN snapshots
             THEN Outcome("NotABrilligCall", NoFunc, NoFunction, <<>>, cni, "not_brillig")
             ELSE IF \E a \in SeqRange(instruction.arguments) : ~IsConstant(self, a)
             THEN Outcome("CannotOptimize", func_id, NoFunction, <<>>, cni, "arguments")
             ELSE CloneAndFold(self, instruction.arguments, func_id,
                               functions[func_id], cni)

\* Function::optimize_const_brillig_call.
OptimizeConstBrilligCall(self, instruction, snapshots, cni) ==
    IF instruction.kind # "Call"
    THEN Outcome("NotABrilligCall", NoFunc, NoFunction, <<>>, cni, "not_a_call")
    ELSE IF self.values[instruction.func].kind # "Function"
    THEN Outcome("NotABrilligCall", NoFunc, NoFunction, <<>>, cni, "not_a_function")
    ELSE LET func_id == self.values[instruction.func].f
         IN  IF func_id \notin DOMAIN snapshots
             THEN Outcome("NotABrilligCall", NoFunc, NoFunction, <<>>, cni, "not_brillig")
             ELSE IF \E a \in SeqRange(instruction.arguments) : ~IsConstant(self, a)
             THEN Outcome("CannotOptimize", func_id, NoFunction, <<>>, cni, "arguments")
             ELSE CloneAndFold(self, instruction.arguments, func_id,
                               snapshots[func_id], cni)

\* Whether the call made a working clone of the callee.
Cloned(out) == out.why \in {"panic", "assert", "unreachable", "error", "instructions", "terminator",
                            "return_values", "optimized"}

RECURSIVE BindResultsToFirst(_, _, _, _)

\* Lines 111-117 with the returned values not advanced together with the
\* results: every result is bound to a copy of the first returned value.
BindResultsToFirst(self, current_results, return_values, function) ==
    IF current_results = <<>> \/ return_values = <<>>
    THEN [fn |-> self, ok |-> TRUE]
    ELSE LET r == CopyConstantToFunction(function, Head(return_values), self)
         IN  IF ~r.ok
             THEN [fn |-> r.fn, ok |-> FALSE]
             ELSE BindResultsToFirst(SetValueFromId(r.fn, Head(current_results), r.id),
                                     Tail(current_results), return_values, function)

RECURSIVE BindResults(_, _, _, _)

\* Lines 111-117: each result of the call is bound to a copy, in the caller,
\* of the returned constant at the same position.
BindResults(self, current_results, return_values, function) ==
    IF current_results = <<>> \/ return_values = <<>>
    THEN [fn |-> self, ok |-> TRUE]
    ELSE LET r == CopyConstantToFunction(function, Head(return_values), self)
         IN  IF ~r.ok
             THEN [fn |-> r.fn, ok |-> FALSE]
             ELSE BindResults(SetValueFromId(r.fn, Head(current_results), r.id),
                              Tail(current_results), Tail(return_values), function)

PushInstruction(fn, block, instruction) ==
    [fn EXCEPT !.blocks[block].instructions = Append(@, instruction)]

-----------------------------------------------------------------------------
(* The input programs                                                      *)

\* The value store every input function starts with: two entry parameters
\* x and a, the constants 0, 1, 2 and [1, 2], a reference to each function,
\* a foreign function, a parameter of a non-entry block, and the results of
\* up to MaxMainInstrs instructions (two results each).
V == [x |-> 1, a |-> 2, zero |-> 3, one |-> 4, two |-> 5, arr |-> 6,
      fn |-> 7, foreign |-> 10, bparam |-> 11, farr |-> 12, res |-> 12]

MaxMainInstrs == 2

BaseValues ==
    <<ParamValue, ParamValue, NumericConstant(0), NumericConstant(1),
      NumericConstant(2), ArrayValue(<<V.one, V.two>>),
      FunctionValue(0), FunctionValue(1), FunctionValue(2),
      ForeignFunctionValue, ParamValue, ArrayValue(<<V.fn + 1>>)>>
    \o [i \in 1..(2 * MaxMainInstrs) |-> InstructionValue]

Results(j) == <<V.res + 2 * j - 1, V.res + 2 * j>>

CallInstr(j, callee, arguments) ==
    [id |-> j, kind |-> "Call", op |-> "call", func |-> callee,
     arguments |-> arguments, results |-> Results(j)]

BinaryInstr(j, op, lhs, rhs) ==
    [id |-> j, kind |-> "Binary", op |-> op, func |-> 0,
     arguments |-> <<lhs, rhs>>, results |-> <<Results(j)[1]>>]

Return(values) == [kind |-> "Return", return_values |-> values]

Jmp == [kind |-> "Jmp", return_values |-> <<>>]

Block(parameters, instructions, terminator) ==
    [parameters |-> parameters, instructions |-> instructions,
     terminator |-> terminator]

MkFunction(id, runtime, blocks) ==
    [id |-> id, runtime |-> runtime, values |-> BaseValues, blocks |-> blocks]

ConstArgs == <<V.one, V.arr>>

MixedArgs == <<V.one, V.a>>

\* The second argument is an array that holds a function reference.
FunctionArrayArgs == <<V.one, V.farr>>

\* Bodies of the functions other than main; o is the other such function.
CalleeBodies(o) ==
    { <<Block(<<V.x, V.a>>, <<>>, Return(<<V.x, V.a>>))>>,
      <<Block(<<V.x, V.a>>, <<BinaryInstr(1, "add", V.x, V.two)>>,
              Return(<<Results(1)[1], V.arr>>))>>,
      <<Block(<<V.x, V.a>>, <<BinaryInstr(1, "div", V.x, V.zero)>>,
              Return(<<Results(1)[1], V.a>>))>>,
      <<Block(<<V.x, V.a>>, <<CallInstr(1, V.foreign, <<V.x>>)>>,
              Return(<<V.x, V.a>>))>>,
      <<Block(<<V.x, V.a>>, <<>>, Jmp),
        Block(<<V.bparam>>, <<CallInstr(1, V.fn + o, ConstArgs)>>,
              Return(<<V.x, V.a>>))>>,
      <<Block(<<V.x, V.a>>, <<>>, Return(<<V.bparam, V.a>>))>>,
      <<Block(<<V.x, V.a>>, <<CallInstr(1, V.fn + o, ConstArgs)>>,
              Return(<<Results(1)[1], V.a>>))>>,
      <<Block(<<V.x, V.a>>, <<CallInstr(1, V.fn + o, MixedArgs)>>,
              Return(<<V.x, V.a>>))>>,
      <<Block(<<V.x, V.a>>, <<CallInstr(1, V.fn + main_id, ConstArgs)>>,
              Return(<<V.x, V.a>>))>> }

\* Bodies that pass or return the array holding a function reference; o is
\* the function called.
FunctionArrayBodies(o) ==
    { <<Block(<<V.x, V.a>>, <<CallInstr(1, V.fn + o, FunctionArrayArgs)>>,
              Return(<<V.x, V.a>>))>>,
      <<Block(<<V.x, V.a>>, <<>>, Return(<<V.x, V.farr>>))>> }

\* What an instruction of main may be: a call of function 1 or 2 with
\* all-constant or mixed arguments, or a call of a foreign function.
MainInstrs(j) ==
    { CallInstr(j, V.fn + f, args) : f \in FuncIds \ {main_id},
                                     args \in {ConstArgs, MixedArgs} }
    \cup { CallInstr(j, V.foreign, <<V.x>>) }

MainInstrSeqs ==
    UNION { { s \in [1..n -> UNION {MainInstrs(j) : j \in 1..MaxMainInstrs}] :
                \A j \in 1..n : s[j].id = j } : n \in 0..MaxMainInstrs }

MainBodies ==
    { <<Block(<<V.x, V.a>>, s, Return(<<V.x, V.a>>))>> : s \in MainInstrSeqs }

\* main is constrained or unconstrained; the other functions are unconstrained.
Runtimes ==
    { rt \in [FuncIds -> {"Acir", "Brillig"}] :
        \A f \in FuncIds \ {main_id} : rt[f] = "Brillig" }

Programs ==
    { [f \in FuncIds |->
          MkFunction(f, rt[f], IF f = main_id THEN m ELSE IF f = 1 THEN b1 ELSE b2)] :
        rt \in Runtimes, m \in MainBodies,
        b1 \in CalleeBodies(2) \cup FunctionArrayBodies(2), b2 \in CalleeBodies(1) }

EntryPointChoices == { {}, {1} }

-----------------------------------------------------------------------------
(* The pass                                                                *)

NoOutcome == Outcome("None", NoFunc, NoFunction, <<>>, {}, "none")

NoLast == [caller |-> NoFunc, block |-> 0, instruction |-> CallInstr(0, 0, <<>>),
           before |-> NoFunction, out |-> NoOutcome]

NoCopy == [src |-> NoFunction, src0 |-> NoFunction, dst |-> NoFunction,
           id |-> 0, copies |-> <<>>]

Init ==
    /\ functions \in Programs
    /\ entry_points \in EntryPointChoices
    /\ brillig_functions = << >>
    /\ could_not_inline = {}
    /\ pc = "start"
    /\ cur = [func |-> NoFunc, block |-> 0]
    /\ taken = <<>>
    /\ initial = functions
    /\ last = NoLast
    /\ visited = {}
    /\ run = 1
    /\ after_first = << >>
    /\ cp = NoCopy

\* Lines 24-31: clone every function whose runtime is Brillig.
SnapshotOf(fns) ==
    [f \in {g \in DOMAIN fns : fns[g].runtime = "Brillig"} |-> CloneWithId(f, fns[f])]

Min(S) == CHOOSE m \in S : \A n \in S : m <= n

\* The position after (func, block) in the iteration of lines 36 and 89:
\* the next reachable block of the function, else the entry block of the
\* next function in key order, else none.
NextPosition(fns, pos) ==
    IF pos.func \in DOMAIN fns /\ pos.block < Len(fns[pos.func].blocks)
    THEN [func |-> pos.func, block |-> pos.block + 1]
    ELSE LET later == {g \in DOMAIN fns : g > pos.func}
         IN  IF later = {}
             THEN [func |-> NoFunc, block |-> 0]
             ELSE [func |-> Min(later), block |-> EntryBlock]

\* take_instructions (line 90) on the block at pos.
EnterBlock(pos) ==
    /\ cur' = pos
    /\ taken' = functions[pos.func].blocks[pos.block].instructions
    /\ functions' = [functions EXCEPT ![pos.func].blocks[pos.block].instructions = <<>>]

\* Lines 22-34 and the entry into the first block.
Snapshot ==
    /\ pc = "start"
    /\ brillig_functions' = SnapshotOf(functions)
    /\ could_not_inline' = {}
    /\ pc' = "visit"
    /\ EnterBlock(NextPosition(functions, [func |-> NoFunc, block |-> 0]))
    /\ UNCHANGED <<entry_points, initial, last, visited, run, after_first, cp>>

\* The loops of lines 36 and 89 move on once the block's instructions are visited.
NextBlock ==
    /\ pc = "visit"
    /\ taken = <<>>
    /\ LET pos == NextPosition(functions, cur)
       IN  IF pos.func = NoFunc
           THEN /\ pc' = "remove"
                /\ UNCHANGED <<functions, cur, taken>>
           ELSE /\ pc' = pc
                /\ EnterBlock(pos)
    /\ UNCHANGED <<entry_points, brillig_functions, could_not_inline, initial, last,
                   visited, run, after_first, cp>>

Attempt ==
    OptimizeConstBrilligCall(functions[cur.func], Head(taken), brillig_functions,
                             could_not_inline)

\* The function a call instruction of self names, NoFunc if its callee
\* value is no function reference.
CalleeOf(self, instruction) ==
    IF instruction.kind = "Call" /\ self.values[instruction.func].kind = "Function"
    THEN self.values[instruction.func].f
    ELSE NoFunc

AllConstant(self, ids) == \A v \in SeqRange(ids) : IsConstant(self, v)

Record(out) ==
    /\ last' = [caller |-> cur.func, block |-> cur.block, instruction |-> Head(taken),
                before |-> functions[cur.func], out |-> out]
    /\ visited' = visited \cup
          {[caller |-> cur.func, block |-> cur.block, instruction |-> Head(taken).id,
            callee |-> CalleeOf(functions[cur.func], Head(taken)),
            all_constant |-> AllConstant(functions[cur.func], Head(taken).arguments),
            result |-> out.result, why |-> out.why]}

\* Lines 99-101.
VisitNotABrilligCall ==
    /\ pc = "visit"
    /\ taken # <<>>
    /\ LET out == Attempt
       IN  /\ out.result = "NotABrilligCall"
           /\ could_not_inline' = out.could_not_inline
           /\ Record(out)
    /\ functions' = [functions EXCEPT
                       ![cur.func] = PushInstruction(@, cur.block, Head(taken))]
    /\ taken' = Tail(taken)
    /\ UNCHANGED <<entry_points, brillig_functions, pc, cur, initial, run,
                   after_first, cp>>

\* Lines 102-105 without the insertion of line 104.
VisitCannotOptimizeNoInsert ==
    /\ pc = "visit"
    /\ taken # <<>>
    /\ LET out == Attempt
       IN  /\ out.result = "CannotOptimize"
           /\ could_not_inline' = out.could_not_inline
           /\ Record(out)
    /\ functions' = [functions EXCEPT
                       ![cur.func] = PushInstruction(@, cur.block, Head(taken))]
    /\ taken' = Tail(taken)
    /\ UNCHANGED <<entry_points, brillig_functions, pc, cur, initial, run,
                   after_first, cp>>

\* Lines 102-105.
VisitCannotOptimize ==
    /\ pc = "visit"
    /\ taken # <<>>
    /\ LET out == Attempt
       IN  /\ out.result = "CannotOptimize"
           /\ could_not_inline' = out.could_not_inline \cup {out.func_id}
           /\ Record(out)
    /\ functions' = [functions EXCEPT
                       ![cur.func] = PushInstruction(@, cur.block, Head(taken))]
    /\ taken' = Tail(taken)
    /\ UNCHANGED <<entry_points, brillig_functions, pc, cur, initial, run,
                   after_first, cp>>

\* Lines 106-118.
VisitOptimized ==
    /\ pc = "visit"
    /\ taken # <<>>
    /\ LET out == Attempt
           b   == BindResults(functions[cur.func], Head(taken).results,
                              out.return_values, out.function)
       IN  /\ out.result = "Optimized"
           /\ Len(out.return_values) = Len(Head(taken).results)
           /\ b.ok
           /\ functions' = [functions EXCEPT ![cur.func] = b.fn]
           /\ could_not_inline' = out.could_not_inline
           /\ Record(out)
    /\ taken' = Tail(taken)
    /\ UNCHANGED <<entry_points, brillig_functions, pc, cur, initial, run,
                   after_first, cp>>

\* The panic that stops the visit of the next instruction, "none" if there
\* is none: "assert" for a failed assert_eq (lines 107 and 162),
\* "unreachable" for the unreachable!() of copy_constant_to_function
\* (line 212), met while the arguments are copied into the clone (line 166)
\* or the returned values into the caller (line 113).
PanicOf ==
    LET out == Attempt
    IN  IF out.result = "Panic"
        THEN out.why
        ELSE IF out.result # "Optimized"
        THEN "none"
        ELSE IF Len(out.return_values) # Len(Head(taken).results)
        THEN "assert"
        ELSE IF ~BindResults(functions[cur.func], Head(taken).results,
                             out.return_values, out.function).ok
        THEN "unreachable"
        ELSE "none"

\* A panic unwinds out of the pass: nothing more is done to the program.
VisitPanic ==
    /\ pc = "visit"
    /\ taken # <<>>
    /\ LET panic == PanicOf
       IN  /\ panic # "none"
           /\ pc' = panic
    /\ UNCHANGED <<functions, entry_points, brillig_functions, could_not_inline,
                   cur, taken, initial, last, visited, run, after_first, cp>>

\* The removal loop without the check of line 49.
RetainedWithoutMainCheck(fns, snapshots, cni, entries) ==
    { f \in DOMAIN fns :
        \/ f \notin DOMAIN snapshots
        \/ f \in cni
        \/ f \in entries }

\* Lines 45-63: the functions the removal loop leaves in the program.
Retained(fns, snapshots, cni, entries) ==
    { f \in DOMAIN fns :
        \/ f \notin DOMAIN snapshots
        \/ f = main_id
        \/ f \in cni
        \/ f \in entries }

RemoveFunctions ==
    /\ pc = "remove"
    /\ functions' = [f \in Retained(functions, brillig_functions, could_not_inline,
                                    entry_points) |-> functions[f]]
    /\ pc' = "done"
    /\ after_first' = IF run = 1 THEN functions' ELSE after_first
    /\ UNCHANGED <<entry_points, brillig_functions, could_not_inline, cur, taken,
                   initial, last, visited, run, cp>>

Next ==
    \/ Snapshot
    \/ NextBlock
    \/ VisitNotABrilligCall
    \/ VisitCannotOptimize
    \/ VisitOptimized
    \/ VisitPanic
    \/ RemoveFunctions

Spec == Init /\ [][Next]_vars

MaxRuns == 2

\* The pass applied again to the program it returned.
Rerun ==
    /\ pc = "done"
    /\ run < MaxRuns
    /\ run' = run + 1
    /\ pc' = "start"
    /\ initial' = functions
    /\ brillig_functions' = << >>
    /\ could_not_inline' = {}
    /\ cur' = [func |-> NoFunc, block |-> 0]
    /\ last' = NoLast
    /\ visited' = {}
    /\ UNCHANGED <<functions, entry_points, taken, after_first, cp>>

NextTwice == Next \/ Rerun

SpecTwice == Init /\ [][NextTwice]_vars

-----------------------------------------------------------------------------
(* Constant migration on its own: a source store, a destination store and  *)
(* repeated copies of one source constant                                  *)

MaxValues == 3

MaxWidth == 2

MaxCopies == 2

RECURSIVE TypeOf(_, _)

\* The type of a constant: <<>> for a numeric constant, the length (plus
\* one) of an array followed by the type of its elements.
TypeOf(values, id) ==
    IF values[id].kind # "Array"
    THEN <<>>
    ELSE <<Len(values[id].elems) + 1>>
         \o (IF values[id].elems = <<>> THEN <<>>
                                         ELSE TypeOf(values, values[id].elems[1]))

\* The elements of an array constant all have the same type.
WellTyped(values, id) ==
    \A j, k \in SeqRange(values[id].elems) : TypeOf(values, j) = TypeOf(values, k)

\* The constants a store of m values can be extended with: a numeric
\* constant, or an array of at most MaxWidth earlier values.
ConstantsOver(m) ==
    { NumericConstant(c) : c \in {0, 1} }
    \cup { ArrayValue(e) : e \in UNION { [1..w -> 1..m] : w \in 0..MaxWidth } }

RECURSIVE ConstantStores(_)

ConstantStores(n) ==
    IF n = 0
    THEN { <<>> }
    ELSE { s \in { Append(t, v) : t \in ConstantStores(n - 1), v \in ConstantsOver(n - 1) } :
             WellTyped(s, n) }

CopyInit ==
    /\ pc = "copy"
    /\ \E values \in UNION { ConstantStores(n) : n \in 1..MaxValues },
          existing \in { <<>>, <<NumericConstant(0), ArrayValue(<<1>>)>> } :
          \E id \in 1..Len(values) :
             cp = [src    |-> [NoFunction EXCEPT !.id = 1, !.values = values],
                   src0   |-> [NoFunction EXCEPT !.id = 1, !.values = values],
                   dst    |-> [NoFunction EXCEPT !.id = 2, !.values = existing],
                   id     |-> id,
                   copies |-> <<>>]
    /\ functions = << >>
    /\ entry_points = {}
    /\ brillig_functions = << >>
    /\ could_not_inline = {}
    /\ cur = [func |-> NoFunc, block |-> 0]
    /\ taken = <<>>
    /\ initial = << >>
    /\ last = NoLast
    /\ visited = {}
    /\ run = 1
    /\ after_first = << >>

\* One call of copy_constant_to_function: cp.src is self, cp.dst is function.
CopyStep ==
    /\ pc = "copy"
    /\ Len(cp.copies) < MaxCopies
    /\ LET r == CopyConstantToFunction(cp.src, cp.id, cp.dst)
       IN  /\ r.ok
           /\ cp' = [cp EXCEPT !.dst = r.fn,
                               !.copies = Append(@, [out |-> r.id,
                                                     lo  |-> Len(cp.dst.values)])]
    /\ UNCHANGED <<functions, entry_points, brillig_functions, could_not_inline, pc,
                   cur, taken, initial, last, visited, run, after_first>>

CopyNext == CopyStep

SpecCopy == CopyInit /\ [][CopyNext]_vars

-----------------------------------------------------------------------------
(* Properties                                                              *)

Unconstrained(f) == f \in DOMAIN initial /\ initial[f].runtime = "Brillig"

\* The call instructions of function g of a program, as (caller, block,
\* instruction, callee function id) records; callee is NoFunc for a call of
\* a value that is no function reference.
CallsIn(prog, g) ==
    { [caller |-> g, block |-> bi[1],
       instruction |-> prog[g].blocks[bi[1]].instructions[bi[2]].id,
       callee |-> CalleeOf(prog[g], prog[g].blocks[bi[1]].instructions[bi[2]])] :
        bi \in { bj \in (1..Len(prog[g].blocks)) \X (1..MaxMainInstrs) :
                   /\ bj[2] <= Len(prog[g].blocks[bj[1]].instructions)
                   /\ prog[g].blocks[bj[1]].instructions[bj[2]].kind = "Call" } }

Calls(prog) == UNION { CallsIn(prog, g) : g \in DOMAIN prog }

\* C1: main and every entry point resolve to a function of the program in
\* every state of the pass, in particular in the program it returns.
C1_MainAndEntryPointsKept ==
    ({main_id} \cup entry_points) \subseteq DOMAIN functions

\* The pass has returned; main is unconstrained and a call of it was
\* specialized, function 1 is an entry point that is not in the must-keep
\* set, and function 2 was removed.
C1_Witness ==
    /\ pc = "done"
    /\ Unconstrained(main_id)
    /\ main_id \notin could_not_inline
    /\ \E v \in visited : v.callee = main_id /\ v.result = "Optimized"
    /\ 1 \in entry_points
    /\ 1 \notin could_not_inline
    /\ 2 \notin DOMAIN functions

\* C2: in the returned program every call instruction of a surviving
\* function whose callee refers to an unconstrained function names a
\* function that is still in the function map.
C2_LiveCalleesKept ==
    pc = "done" =>
        \A c \in Calls(functions) :
            Unconstrained(c.callee) => c.callee \in DOMAIN functions

\* The pass has returned, it removed a function, and a surviving function
\* still calls an unconstrained function that is neither main nor an entry
\* point.
C2_Witness ==
    /\ pc = "done"
    /\ DOMAIN functions # FuncIds
    /\ \E c \in Calls(functions) :
          /\ Unconstrained(c.callee)
          /\ c.callee # main_id
          /\ c.callee \notin entry_points

\* The instruction about to be visited is a call of a snapshot function.
VisitsSnapshotCall ==
    /\ pc = "visit"
    /\ taken # <<>>
    /\ CalleeOf(functions[cur.func], Head(taken)) \in DOMAIN brillig_functions

NextCallee == CalleeOf(functions[cur.func], Head(taken))

\* The visited instruction is pushed back onto its block and nothing else
\* of the program changes.
ReEmittedUnchanged ==
    functions' = [functions EXCEPT
                    ![cur.func] = PushInstruction(@, cur.block, Head(taken))]

C3_Step ==
    (VisitsSnapshotCall
        /\ ~AllConstant(functions[cur.func], Head(taken).arguments))
    => /\ ReEmittedUnchanged
       /\ ~Cloned(last'.out)
       /\ NextCallee \in could_not_inline'
       /\ taken' = Tail(taken)

C3_Retained ==
    \A v \in visited :
        (v.callee \in DOMAIN brillig_functions /\ ~v.all_constant)
        => /\ v.callee \in could_not_inline
           /\ (pc = "done" => v.callee \in DOMAIN functions)

FoldedClone ==
    LET self     == functions[cur.func]
        function == CloneWithId(NextCallee, brillig_functions[NextCallee])
        stripped == [function EXCEPT !.blocks[EntryBlock].parameters = <<>>]
    IN  Optimize(SubstituteParameters(self, function.blocks[EntryBlock].parameters,
                                      Head(taken).arguments, stripped).fn)

\* The arguments of the instruction about to be visited were copied into
\* the working clone, so that the sub-pipeline runs on it.
Substituted ==
    LET function == brillig_functions[NextCallee]
    IN  /\ Len(Head(taken).arguments) = Len(function.blocks[EntryBlock].parameters)
        /\ SubstituteParameters(functions[cur.func],
                                function.blocks[EntryBlock].parameters,
                                Head(taken).arguments, function).ok

\* The sub-pipeline returns an error, or leaves an instruction in the entry
\* block, or a terminator that is no Return, or a returned value that is no
\* constant.
FoldFails ==
    LET folded == FoldedClone
    IN  \/ ~folded.ok
        \/ folded.fn.blocks[EntryBlock].instructions # <<>>
        \/ folded.fn.blocks[EntryBlock].terminator.kind # "Return"
        \/ ~AllConstant(folded.fn,
                        folded.fn.blocks[EntryBlock].terminator.return_values)

FailedAttempt ==
    /\ VisitsSnapshotCall
    /\ AllConstant(functions[cur.func], Head(taken).arguments)
    /\ Substituted
    /\ FoldFails

C4_Step ==
    FailedAttempt
    => /\ ReEmittedUnchanged
       /\ NextCallee \in could_not_inline'
       /\ pc' = "visit"
       /\ taken' = Tail(taken)

\* The visit of a failed attempt is the arm of lines 102-105: no panic, no
\* error leaves optimize_const_brillig_call.
C4_NoAbort == FailedAttempt => Attempt.result = "CannotOptimize"

\* C4: a failed specialization attempt of any of the four kinds does not
\* stop the pass; the call is restored in its block, the rest of the
\* caller is as before the visit, and the callee is in the must-keep set.
C4_FailedAttemptRestored == [][C4_Step]_vars /\ []C4_NoAbort

\* A call with all-constant arguments has just been visited, the
\* sub-pipeline returned a hard error on the clone, and the pass goes on.
C4_Witness ==
    /\ pc = "visit"
    /\ last.out.why = "error"
    /\ last.out.result = "CannotOptimize"
    /\ last.out.func_id \in could_not_inline
    /\ last.instruction \in
          SeqRange(functions[last.caller].blocks[last.block].instructions)

\* Every call of f in the program the pass started from was specialized.
AllCallSitesSpecialized(f) ==
    \A c \in Calls(initial) :
        c.callee = f =>
            \E v \in visited :
                /\ v.caller = c.caller
                /\ v.block = c.block
                /\ v.instruction = c.instruction
                /\ v.result = "Optimized"

\* C5: an unconstrained function that is neither main nor an entry point
\* and all of whose call sites were specialized is not in the returned
\* program.
C5_FullySpecializedRemoved ==
    pc = "done" =>
        \A f \in FuncIds \ ({main_id} \cup entry_points) :
            (Unconstrained(f) /\ AllCallSitesSpecialized(f))
            => f \notin DOMAIN functions

\* The pass has returned and removed a function that had a call site, all
\* of its call sites having been specialized.
C5_Witness ==
    /\ pc = "done"
    /\ \E f \in FuncIds \ ({main_id} \cup entry_points) :
          /\ Unconstrained(f)
          /\ \E c \in Calls(initial) : c.callee = f
          /\ AllCallSitesSpecialized(f)
          /\ f \notin DOMAIN functions

\* C6: the program returned by a second run of the pass has the functions
\* and the call instructions of the program returned by the first run.
C6_Idempotent ==
    (pc = "done" /\ run = 2) =>
        /\ DOMAIN functions = DOMAIN after_first
        /\ Calls(functions) = Calls(after_first)

\* C7: in the returned program every unconstrained function other than main
\* and the entry points is the callee of a call instruction of a surviving
\* function.
C7_UncalledRemoved ==
    pc = "done" =>
        \A f \in DOMAIN functions \ ({main_id} \cup entry_points) :
            Unconstrained(f) => \E c \in Calls(functions) : c.callee = f

RECURSIVE TreeOf(_, _)

\* The value an identifier stands for in a function's store, as a tree.
TreeOf(fn, id) ==
    [kind |-> fn.values[id].kind, c |-> fn.values[id].c, f |-> fn.values[id].f,
     kids |-> [i \in 1..Len(fn.values[id].elems) |-> TreeOf(fn, fn.values[id].elems[i])]]

RECURSIVE ElementsFresh(_, _, _)

\* Every element identifier under id, at any depth, is an identifier of
\* fn's store made after the store had lo values.
ElementsFresh(fn, id, lo) ==
    \A i \in 1..Len(fn.values[id].elems) :
        /\ fn.values[id].elems[i] > lo
        /\ fn.values[id].elems[i] <= Len(fn.values)
        /\ ElementsFresh(fn, fn.values[id].elems[i], lo)

SuccessfulFold ==
    /\ VisitsSnapshotCall
    /\ AllConstant(functions[cur.func], Head(taken).arguments)
    /\ Substituted
    /\ ~FoldFails

C9_Step ==
    SuccessfulFold
    => LET before   == functions[cur.func]
           after    == functions'[cur.func]
           results  == Head(taken).results
           returned == FoldedClone.fn.blocks[EntryBlock].terminator.return_values
       IN  /\ after.blocks = before.blocks
           /\ \A g \in DOMAIN functions \ {cur.func} : functions'[g] = functions[g]
           /\ DOMAIN functions' = DOMAIN functions
           /\ Len(results) = Len(returned)
           /\ \A k \in 1..Len(results) :
                 /\ IsConstant(after, results[k])
                 /\ TreeOf(after, results[k]) = TreeOf(FoldedClone.fn, returned[k])
                 /\ ElementsFresh(after, results[k], Len(before.values))
                 /\ \E n \in (Len(before.values) + 1)..Len(after.values) :
                       after.values[n] = after.values[results[k]]
           /\ could_not_inline' = could_not_inline
           /\ taken' = Tail(taken)

\* The instructions emitted so far into the block being visited, followed
\* by those still to visit, are the block's original instructions without
\* the specialized calls, in the original order.
C9_OrderKept ==
    pc = "visit" =>
        functions[cur.func].blocks[cur.block].instructions \o taken
          = SelectSeq(initial[cur.func].blocks[cur.block].instructions,
                      LAMBDA i : ~\E v \in visited :
                                     /\ v.caller = cur.func
                                     /\ v.block = cur.block
                                     /\ v.instruction = i.id
                                     /\ v.result = "Optimized")

\* C9: when the folded clone of an all-constant call is an empty entry
\* block returning constants, the call is not re-emitted, its k-th result is
\* bound to a copy in the caller's store of the k-th returned constant, the
\* callee is not added to the must-keep set, and the other instructions of
\* the block keep their order.
C9_SpecializedCallReplaced == [][C9_Step]_vars /\ []C9_OrderKept

\* A call was just specialized: it is gone from its block, which already
\* holds an earlier instruction and has a later one to visit, its second
\* result is an array constant, and the callee is not in the must-keep set.
C9_Witness ==
    /\ pc = "visit"
    /\ last.out.result = "Optimized"
    /\ last.out.func_id \notin could_not_inline
    /\ functions[last.caller].blocks[last.block].instructions # <<>>
    /\ last.instruction \notin
          SeqRange(functions[last.caller].blocks[last.block].instructions)
    /\ taken # <<>>
    /\ functions[last.caller].values[last.instruction.results[2]].kind = "Array"

\* C10: after the snapshot is taken it equals, entry by entry, the
\* unconstrained functions of the program the pass started from, and the
\* outcome of every specialization attempt is the outcome of folding a
\* clone of the callee as it was before the pass started.
C10_SnapshotFrozen ==
    pc \in {"visit", "remove", "done"} =>
        /\ brillig_functions = SnapshotOf(initial)
        /\ (last.caller # NoFunc /\ Cloned(last.out))
           => LET expected == CloneAndFold(last.before, last.instruction.arguments,
                                           last.out.func_id,
                                           initial[last.out.func_id], {})
              IN  /\ last.out.result = expected.result
                  /\ last.out.function = expected.function
                  /\ last.out.return_values = expected.return_values

\* An attempt was just made on a callee that was processed before its
\* caller and whose live entry block, emptied of a specialized call, no
\* longer equals the snapshot; the attempt failed on the instruction the
\* snapshot still holds.
C10_Witness ==
    /\ pc = "visit"
    /\ last.caller # NoFunc
    /\ last.out.why = "instructions"
    /\ last.out.func_id < last.caller
    /\ functions[last.out.func_id].blocks[EntryBlock].instructions = <<>>
    /\ brillig_functions[last.out.func_id].blocks[EntryBlock].instructions # <<>>

RECURSIVE Reach(_, _)

\* The identifiers of fn's store a constant is made of.
Reach(fn, id) ==
    {id} \cup UNION { Reach(fn, fn.values[id].elems[i]) :
                        i \in 1..Len(fn.values[id].elems) }

\* Every array of the store was made after its elements.
ElementsFirst(fn) ==
    \A n \in 1..Len(fn.values) :
        \A i \in 1..Len(fn.values[n].elems) : fn.values[n].elems[i] < n

\* C8: every copy of the source constant is an identifier made in the
\* destination by that copy, its elements at every depth are identifiers
\* made in the destination by that copy (each before the array holding
\* it), its value equals the source value as a tree (order and depth
\* kept), the source is as it was, and two copies of the same constant
\* share no identifier.
C8_MigrationCorrect ==
    pc = "copy" =>
        /\ cp.src = cp.src0
        /\ ElementsFirst(cp.dst)
        /\ \A k \in 1..Len(cp.copies) :
              /\ cp.copies[k].out > cp.copies[k].lo
              /\ cp.copies[k].out <= Len(cp.dst.values)
              /\ ElementsFresh(cp.dst, cp.copies[k].out, cp.copies[k].lo)
              /\ TreeOf(cp.dst, cp.copies[k].out) = TreeOf(cp.src, cp.id)
              /\ \A j \in 1..(k - 1) :
                    Reach(cp.dst, cp.copies[j].out)
                      \cap Reach(cp.dst, cp.copies[k].out) = {}

\* The same array of two arrays was copied twice.
C8_Witness ==
    /\ pc = "copy"
    /\ Len(cp.copies) = 2
    /\ Len(cp.src.values[cp.id].elems) = 2
    /\ \A e \in SeqRange(cp.src.values[cp.id].elems) :
          cp.src.values[e].kind = "Array" /\ cp.src.values[e].elems # <<>>

\* C11: no run of the pass reaches the unreachable!() branch of
\* copy_constant_to_function: every argument that passed the check of line
\* 149 and every returned value that passed the check of line 191 is
\* copied without meeting a value that is neither a numeric nor an array
\* constant.
C11_CopyNeverFatal == pc # "unreachable"

====
